---------------------------- MODULE Spec2Model ----------------------------
(***************************************************************************)
(* Model of HTTPUtils (src/HTTPUtils.py): execute, execute_many, the       *)
(* session preparation, the five verb functions, and the behaviour of the  *)
(* requests/urllib3 client the class configures and calls (adapter lookup  *)
(* by url prefix, urllib3's Retry loop).                                   *)
(***************************************************************************)
EXTENDS Integers, Sequences, FiniteSets, TLC

\* Longest req_arg_list handed to execute_many.
MaxBatch == 2
\* The `retries` argument the HTTPUtils object is constructed with.
MaxRetries == 2

VARIABLES
    self,          \* the HTTPUtils object: http_adapter, executor
    op,            \* public method the caller invoked: "execute" or "execute_many"
    req_arg_list,  \* the caller's descriptors (one for execute)
    pc,            \* position of the calling thread
    idx,           \* execute_many: position of the for loop in req_arg_list
    ret,           \* execute_many: the dict `ret`
    retval,        \* value returned to the caller
    future,        \* per task: state of the Future returned by executor.submit
    call,          \* per task: state of the execute call run for it
    completed,     \* task numbers in order of completion of their execute call
    peak           \* largest number of execute calls in flight at one time

vars == <<self, op, req_arg_list, pc, idx, ret, retval, future, call, completed, peak>>

---------------------------------------------------------------------------
\* Python values

\* Python's None (a descriptor, a url, or a function's return value).
PyNone == [type |-> "NoneType"]
PyInt(n) == [type |-> "int", val |-> n]
PyStr(s) == [type |-> "str", val |-> s]
PyTuple(t) == [type |-> "tuple", val |-> t]
\* A url string, kept as its scheme prefix and the rest: '' is Url("", "").
Url(scheme, rest) == [type |-> "str", scheme |-> scheme, rest |-> rest]
EmptyStr == Url("", "")

\* class Protocol
Protocol == {"http://", "https://"}
\* class HTTPMethod
HTTPMethod == {"GET", "POST", "PUT", "DELETE", "PATCH"}
\* A value of the method field that is no member of HTTPMethod.
NotAMethod == "HEAD"

\* class RequestArgs: the fields the code reads.  The optional fields carry
\* one fixed value each.
RequestArgs(method, protocol, url) ==
    [method |-> method, protocol |-> protocol, url |-> url,
     timeout |-> "timeout", params |-> "params", data |-> "data",
     json_data |-> "json_data", headers |-> "headers"]

UrlValues ==
    {PyNone, EmptyStr, Url("http://", "a"), Url("https://", "a"), Url("", "a")}

\* Descriptors handed to execute.
RequestArgsSet ==
    {PyNone} \cup
    {RequestArgs(m, p, u) : m \in HTTPMethod \cup {NotAMethod}, p \in Protocol, u \in UrlValues}

\* Descriptors handed to execute_many.
BatchArgsSet ==
    {PyNone} \cup
    {RequestArgs(m, p, u) :
        m \in {"GET", NotAMethod},
        p \in Protocol,
        u \in {PyNone, EmptyStr, Url("http://", "a"), Url("http://", "b")}}

---------------------------------------------------------------------------
\* json.dumps

JsonNumber(n) == [type |-> "number", val |-> n]
JsonString(s) == [type |-> "string", val |-> s]
JsonArray(a) == [type |-> "array", val |-> a]

\* json.dumps of one Python value: int -> number, str -> string, tuple -> array.
json_value(v) ==
    CASE v.type = "int" -> JsonNumber(v.val)
      [] v.type = "str" -> JsonString(v.val)
      [] v.type = "tuple" -> JsonArray(v.val)

\* json.dumps({'status_code': s, 'text': t})
json_dumps(status_code, text) ==
    [status_code |-> json_value(status_code), text |-> json_value(text)]

\* json.dumps of a dict key: None becomes the key "null", a str stays.
json_key(k) == IF k = PyNone THEN Url("", "null") ELSE k

JsonObject(members) == [type |-> "object", val |-> members]

\* json.dumps(ret): the dict with its keys converted.
json_dumps_dict(d) ==
    JsonObject([k \in {json_key(u) : u \in DOMAIN d} |->
                   d[CHOOSE u \in DOMAIN d : json_key(u) = k]])

---------------------------------------------------------------------------
\* The client: requests.Session, HTTPAdapter, urllib3's Retry

\* Retry(total=..., status_forcelist=...).  read is FALSE for Retry(read=False).
Retry(total, status_forcelist, read) ==
    [total |-> total, status_forcelist |-> status_forcelist, read |-> read]

HTTPAdapter(id, max_retries) == [id |-> id, max_retries |-> max_retries]

\* The adapters a fresh requests.Session() carries: one per scheme, each with
\* its own connection pool and Retry(0, read=False).
DefaultAdapter(prefix) == HTTPAdapter("default " \o prefix, Retry(0, {}, FALSE))

\* HTTPUtils.__init__
HTTPUtils(retries) ==
    [http_adapter |->
        HTTPAdapter("self.http_adapter", Retry(retries, {500, 502, 503, 504}, TRUE)),
     executor |-> "ThreadPoolExecutor"]

\* requests.Session(): prefix -> adapter
Session == [p \in Protocol |-> DefaultAdapter(p)]

\* Mutant of mount: an adapter instance of its own is mounted for each prefix.
mount_per_protocol(session, prefix, adapter) ==
    [session EXCEPT ![prefix] = HTTPAdapter(adapter.id \o " " \o prefix, adapter.max_retries)]

\* session.mount(prefix, adapter)
mount(session, prefix, adapter) == [session EXCEPT ![prefix] = adapter]

\* What a call of the client ended with.
NoOutcome == [kind |-> "none", status_code |-> 0, text |-> ""]
Response(status_code, text) ==
    [kind |-> "response", status_code |-> status_code, text |-> text]
\* An exception; text is str(e).
Raised(description) == [kind |-> "exception", status_code |-> 0, text |-> description]

\* What the endpoint (or the network) does with one attempt.
Answer(kind, status_code, text) == [kind |-> kind, status_code |-> status_code, text |-> text]
ConnectError == Answer("connect_error", 0, "")
ReadError == Answer("read_error", 0, "")
Answers ==
    {Answer("response", 200, "OK"), Answer("response", 404, "Not Found"),
     Answer("response", 500, "Internal Server Error"),
     Answer("response", 503, "Service Unavailable"),
     ConnectError, ReadError}
\* The answers drawn for the calls of a batch.
BatchAnswers ==
    {Answer("response", 200, "OK"), Answer("response", 404, "Not Found"), ConnectError}

NoResult == [type |-> "unset"]
NoRetry == Retry(0, {}, FALSE)

\* An execute call that has not started.
NewCall ==
    [phase |-> "new", mounted |-> "", client_calls |-> 0, verb |-> "", kwargs |-> {},
     adapter |-> "", retry |-> NoRetry,
     attempts |-> 0, answers |-> <<>>, outcome |-> NoOutcome, result |-> NoResult]

\* urllib3's Retry.DEFAULT_ALLOWED_METHODS: the Retry object is built without
\* allowed_methods, so only these verbs are retried on a status or a read error.
DEFAULT_ALLOWED_METHODS == {"HEAD", "GET", "PUT", "DELETE", "OPTIONS", "TRACE"}

is_method_retryable(verb) == verb \in DEFAULT_ALLOWED_METHODS

\* Mutant of is_retry: every error status is retried.
is_retry_any_error(retry, verb, status_code) ==
    is_method_retryable(verb) /\ status_code >= 400

is_retry(retry, verb, status_code) ==
    is_method_retryable(verb) /\ status_code \in retry.status_forcelist

increment(retry) == [retry EXCEPT !.total = @ - 1]

is_exhausted(retry) == retry.total < 0

\* Mutant of urlopen: a network-level failure is raised at once.
urlopen_fail_fast(retry, verb, a) ==
    CASE a.kind = "response" ->
            IF is_retry(retry, verb, a.status_code)
            THEN IF is_exhausted(increment(retry)) THEN Raised("RetryError") ELSE NoOutcome
            ELSE Response(a.status_code, a.text)
      [] a.kind = "connect_error" -> Raised("ConnectionError")
      [] a.kind = "read_error" -> Raised("ReadTimeout")

\* One attempt of HTTPAdapter.send / urlopen with the answer a: the outcome of
\* the client call, or NoOutcome when the attempt is to be repeated.
urlopen(retry, verb, a) ==
    CASE a.kind = "response" ->
            IF is_retry(retry, verb, a.status_code)
            THEN IF is_exhausted(increment(retry)) THEN Raised("RetryError") ELSE NoOutcome
            ELSE Response(a.status_code, a.text)
      [] a.kind = "connect_error" ->
            IF is_exhausted(increment(retry)) THEN Raised("ConnectionError") ELSE NoOutcome
      [] a.kind = "read_error" ->
            IF ~retry.read \/ ~is_method_retryable(verb) THEN Raised("ReadTimeout")
            ELSE IF is_exhausted(increment(retry)) THEN Raised("ConnectionError")
            ELSE NoOutcome

---------------------------------------------------------------------------
\* HTTPUtils

HTTPException(message) == Raised(message)

\* __prepare_session: the session, or the exception raised.
prepare_session(this, req_args) ==
    IF req_args = PyNone
    THEN [raised |-> TRUE, e |-> HTTPException("RequestArgs cannot be empty"), session |-> Session]
    ELSE IF req_args.url = PyNone \/ req_args.url = EmptyStr
    THEN [raised |-> TRUE, e |-> HTTPException("URL cannot be empty."), session |-> Session]
    ELSE [raised |-> FALSE, e |-> NoOutcome,
          session |-> mount(Session, req_args.protocol, this.http_adapter)]

\* e.args of an exception built with one argument
args(e) == PyTuple(<<e.text>>)

\* The keyword arguments each verb function hands to the session.
get(req_args) == {"params", "headers", "timeout"}
post(req_args) == {"params", "data", "json", "headers", "timeout"}
put(req_args) == {"params", "data", "json", "headers", "timeout"}
\* Mutant of delete: the body arguments are passed as in __post.
delete_with_body(req_args) == {"params", "data", "json", "headers", "timeout"}

delete(req_args) == {"params", "headers", "timeout"}
patch(req_args) == {"params", "data", "json", "headers", "timeout"}

\* Mutant of get_return: an error status is raised (as by raise_for_status())
\* and reported as a caught exception.
get_return_raise_for_status(o) ==
    IF o.kind = "response" /\ o.status_code < 400
    THEN json_dumps(PyInt(o.status_code), PyStr(o.text))
    ELSE json_dumps(PyInt(500), PyStr("Error: " \o o.text))

\* The return of each verb function, o being what the session call ended with.
get_return(o) ==
    IF o.kind = "response"
    THEN json_dumps(PyInt(o.status_code), PyStr(o.text))
    ELSE json_dumps(PyInt(500), PyStr("Error: " \o o.text))

\* Mutant of post_return: the exception is reported with the sentinel status
\* and e.args, as validation failures are.
post_return_sentinel(o) ==
    IF o.kind = "response"
    THEN json_dumps(PyInt(o.status_code), PyStr(o.text))
    ELSE json_dumps(PyStr("000"), PyTuple(<<o.text>>))

post_return(o) ==
    IF o.kind = "response"
    THEN json_dumps(PyInt(o.status_code), PyStr(o.text))
    ELSE json_dumps(PyInt(500), PyStr("Error: " \o o.text))

put_return(o) ==
    IF o.kind = "response"
    THEN json_dumps(PyInt(o.status_code), PyStr(o.text))
    ELSE json_dumps(PyInt(500), PyStr("Error: " \o o.text))

delete_return(o) ==
    IF o.kind = "response"
    THEN json_dumps(PyInt(o.status_code), PyStr(o.text))
    ELSE json_dumps(PyInt(500), PyStr("Error: " \o o.text))

patch_return(o) ==
    IF o.kind = "response"
    THEN json_dumps(PyInt(o.status_code), PyStr(o.text))
    ELSE json_dumps(PyInt(500), PyStr("Error: " \o o.text))

verb_kwargs(req_args) ==
    CASE req_args.method = "GET" -> get(req_args)
      [] req_args.method = "POST" -> post(req_args)
      [] req_args.method = "PUT" -> put(req_args)
      [] req_args.method = "DELETE" -> delete(req_args)
      [] req_args.method = "PATCH" -> patch(req_args)

verb_return(verb, o) ==
    CASE verb = "GET" -> get_return(o)
      [] verb = "POST" -> post_return(o)
      [] verb = "PUT" -> put_return(o)
      [] verb = "DELETE" -> delete_return(o)
      [] verb = "PATCH" -> patch_return(o)

\* The call has ended with outcome o: the verb function returns.
finish(c, o) ==
    [c EXCEPT !.phase = "done", !.outcome = o, !.result = verb_return(c.verb, o)]

\* session.get/post/... up to the first attempt.  A url without a scheme is
\* refused (MissingSchema) before anything is sent; otherwise the adapter is
\* the one mounted for the url's prefix.
session_request(session, req_args) ==
    LET c == [NewCall EXCEPT !.mounted = session[req_args.protocol].id,
                             !.client_calls = 1,
                             !.verb = req_args.method, !.kwargs = verb_kwargs(req_args)]
    IN  IF req_args.url.scheme \notin DOMAIN session
        THEN finish(c, Raised("MissingSchema"))
        ELSE [c EXCEPT !.phase = "inflight",
                       !.adapter = session[req_args.url.scheme].id,
                       !.retry = session[req_args.url.scheme].max_retries]

\* execute, from its entry to the first attempt on the network (or to its
\* return when there is none).
execute(this, req_args) ==
    LET s == prepare_session(this, req_args)
    IN  IF s.raised
        THEN [NewCall EXCEPT !.phase = "done", !.outcome = s.e,
                             !.result = json_dumps(PyStr("000"), args(s.e))]
        ELSE IF req_args.method \in HTTPMethod
        THEN session_request(s.session, req_args)
        ELSE [NewCall EXCEPT !.phase = "done", !.mounted = s.session[req_args.protocol].id,
                             !.result = PyNone]

\* execute, resumed by the answer a to the attempt in flight.
attempt(c, a) ==
    LET o == urlopen(c.retry, c.verb, a)
        d == [c EXCEPT !.attempts = @ + 1, !.answers = Append(@, a)]
    IN  IF o = NoOutcome
        THEN [d EXCEPT !.retry = increment(c.retry)]
        ELSE finish(d, o)

\* Mutant of req_args_after: the protocol is written into a url that lacks it.
req_args_after_prefixed(req_args) ==
    IF req_args = PyNone \/ req_args.url = PyNone
    THEN req_args
    ELSE [req_args EXCEPT !.url.scheme = req_args.protocol]

\* The descriptor as execute, __prepare_session and the verb functions leave
\* it: they read its fields and assign to none of them.
req_args_after(req_args) == req_args

\* The HTTPUtils object as execute and __prepare_session leave it: http_adapter
\* and executor are assigned in __init__ only.
self_after(this) == this

\* Mutant of update: ret = {key: value}, the earlier entries are dropped.
update_replace(d, key, value) == [k \in {key} |-> value]

\* Mutant of update: ret.setdefault(key, value), the first entry is kept.
update_keep_first(d, key, value) ==
    [k \in DOMAIN d \cup {key} |-> IF k \in DOMAIN d THEN d[k] ELSE value]

\* ret.update({key: value})
update(d, key, value) ==
    [k \in DOMAIN d \cup {key} |-> IF k = key THEN value ELSE d[k]]

---------------------------------------------------------------------------
\* State machine

Tasks == DOMAIN req_arg_list

\* Futures submitted to the pool whose call has not finished.
InFlight(f) == {t \in DOMAIN f : f[t] \in {"pending", "running"}}

Max(a, b) == IF a >= b THEN a ELSE b

Range(f) == {f[i] : i \in DOMAIN f}

\* Mutant of result_ready: the caller does not wait for the future.
result_ready_nowait(f) == f # "none"

\* future.result() returns only once the future has finished.
result_ready(f) == f = "finished"

Init ==
    /\ self = HTTPUtils(MaxRetries)
    /\ \/ /\ op = "execute"
          /\ req_arg_list \in {<<d>> : d \in RequestArgsSet}
       \/ /\ op = "execute_many"
          /\ req_arg_list \in UNION {[1..n -> BatchArgsSet] : n \in 0..MaxBatch}
    /\ pc = "start"
    /\ idx = 1
    /\ ret = [k \in {} |-> NoResult]
    /\ retval = NoResult
    /\ future = [t \in DOMAIN req_arg_list |-> "none"]
    /\ call = [t \in DOMAIN req_arg_list |-> NewCall]
    /\ completed = <<>>
    /\ peak = 0

\* The caller calls execute(req_args): the call runs in the caller's thread
\* up to its first attempt on the network, or to its return.
ExecuteCall ==
    /\ op = "execute"
    /\ pc = "start"
    /\ LET c == execute(self, req_arg_list[1])
       IN  /\ call' = [call EXCEPT ![1] = c]
           /\ IF c.phase = "done"
              THEN /\ pc' = "returned"
                   /\ retval' = c.result
                   /\ completed' = Append(completed, 1)
              ELSE /\ pc' = "in_execute"
                   /\ UNCHANGED <<retval, completed>>
    /\ self' = self_after(self)
    /\ req_arg_list' = [req_arg_list EXCEPT ![1] = req_args_after(@)]
    /\ UNCHANGED <<op, idx, ret, future, peak>>

\* The attempt of the caller's execute call is answered.
ExecuteAnswer(a) ==
    /\ op = "execute"
    /\ pc = "in_execute"
    /\ call[1].phase = "inflight"
    /\ LET c == attempt(call[1], a)
       IN  /\ call' = [call EXCEPT ![1] = c]
           /\ IF c.phase = "done"
              THEN /\ pc' = "returned"
                   /\ retval' = c.result
                   /\ completed' = Append(completed, 1)
              ELSE UNCHANGED <<pc, retval, completed>>
    /\ UNCHANGED <<self, op, req_arg_list, idx, ret, future, peak>>

\* execute_many: ret = {}
ExecuteManyCall ==
    /\ op = "execute_many"
    /\ pc = "start"
    /\ ret' = [k \in {} |-> NoResult]
    /\ pc' = "loop"
    /\ UNCHANGED <<self, op, req_arg_list, idx, retval, future, call, completed, peak>>

\* execute_many: future = self.executor.submit(self.execute, req_args), then
\* the key req_args.url of the dict display is evaluated, which raises
\* AttributeError for a None descriptor; otherwise future.result() is entered.
Submit ==
    /\ op = "execute_many"
    /\ pc = "loop"
    /\ idx <= Len(req_arg_list)
    /\ future' = [future EXCEPT ![idx] = "pending"]
    /\ peak' = Max(peak, Cardinality(InFlight(future')))
    /\ IF req_arg_list[idx] = PyNone
       THEN /\ pc' = "raised"
            /\ retval' = Raised("AttributeError")
       ELSE /\ pc' = "wait"
            /\ UNCHANGED retval
    /\ UNCHANGED <<self, op, req_arg_list, idx, ret, call, completed>>

\* A pool thread takes the task and runs execute up to its first attempt on
\* the network, or to its return.
WorkerRun(t) ==
    /\ future[t] = "pending"
    /\ LET c == execute(self, req_arg_list[t])
       IN  /\ call' = [call EXCEPT ![t] = c]
           /\ IF c.phase = "done"
              THEN /\ future' = [future EXCEPT ![t] = "finished"]
                   /\ completed' = Append(completed, t)
              ELSE /\ future' = [future EXCEPT ![t] = "running"]
                   /\ UNCHANGED completed
    /\ self' = self_after(self)
    /\ req_arg_list' = [req_arg_list EXCEPT ![t] = req_args_after(@)]
    /\ UNCHANGED <<op, pc, idx, ret, retval, peak>>

\* The attempt of a pool thread's execute call is answered.
WorkerAnswer(t, a) ==
    /\ future[t] = "running"
    /\ call[t].phase = "inflight"
    /\ LET c == attempt(call[t], a)
       IN  /\ call' = [call EXCEPT ![t] = c]
           /\ IF c.phase = "done"
              THEN /\ future' = [future EXCEPT ![t] = "finished"]
                   /\ completed' = Append(completed, t)
              ELSE UNCHANGED <<future, completed>>
    /\ UNCHANGED <<self, op, req_arg_list, pc, idx, ret, retval, peak>>

\* execute_many: future.result() returns and ret.update stores it under the url.
FutureResult ==
    /\ op = "execute_many"
    /\ pc = "wait"
    /\ result_ready(future[idx])
    /\ ret' = update(ret, req_arg_list[idx].url, call[idx].result)
    /\ idx' = idx + 1
    /\ pc' = "loop"
    /\ UNCHANGED <<self, op, req_arg_list, retval, future, call, completed, peak>>

\* execute_many: return json.dumps(ret)
Return ==
    /\ op = "execute_many"
    /\ pc = "loop"
    /\ idx > Len(req_arg_list)
    /\ retval' = json_dumps_dict(ret)
    /\ pc' = "returned"
    /\ UNCHANGED <<self, op, req_arg_list, idx, ret, future, call, completed, peak>>

Next ==
    \/ ExecuteCall
    \/ \E a \in Answers : ExecuteAnswer(a)
    \/ ExecuteManyCall
    \/ Submit
    \/ \E t \in Tasks : WorkerRun(t)
    \/ \E t \in Tasks : \E a \in BatchAnswers : WorkerAnswer(t, a)
    \/ FutureResult
    \/ Return

Spec == Init /\ [][Next]_vars

\* The pool runs every submitted task, every attempt on the network is
\* answered (a response, or a failure such as the per-call timeout), and the
\* calling thread keeps running.
FairSpec == Spec /\ WF_vars(Next)

---------------------------------------------------------------------------
\* Vocabulary of the properties

\* A Result: an object with exactly a status_code and a text.
IsResult(v) == DOMAIN v = {"status_code", "text"}

\* The descriptor fails __prepare_session's validation.
FailsValidation(d) == d = PyNone \/ d.url = PyNone \/ d.url = EmptyStr

\* A valid descriptor: passes validation and names one of the five methods.
Valid(d) == ~FailsValidation(d) /\ d.method \in HTTPMethod

Result(status_code, text) == [status_code |-> status_code, text |-> text]

Last(h) == h[Len(h)]

A503 == Answer("response", 503, "Service Unavailable")
A200 == Answer("response", 200, "OK")
A404 == Answer("response", 404, "Not Found")

\* The statuses the Executor's Retry object is configured to retry.
RetrySet == self.http_adapter.max_retries.status_forcelist

\* The configured number of retries.
maxRetries == self.http_adapter.max_retries.total

\* Position of task t in the order of completion.
CompletedAt(t) == CHOOSE i \in 1..Len(completed) : completed[i] = t

\* The Result execute produces on its own for descriptor d when the endpoint
\* gives the answers h.
RECURSIVE Replay(_, _)
Replay(c, h) ==
    IF h = <<>> \/ c.phase # "inflight" THEN c ELSE Replay(attempt(c, Head(h)), Tail(h))

execute_alone(d, h) == Replay(execute(self, d), h).result

---------------------------------------------------------------------------
\* C1: execute never lets an exception escape and, for every input (a None
\* descriptor, an empty or absent url, any value of the method field, any
\* behaviour of the endpoint), returns a Result with a status_code and a text.
C1_ExecuteAlwaysReturnsResult ==
    op = "execute" =>
        /\ pc # "raised"
        /\ pc = "returned" => IsResult(retval)

\* C2: execute_many never raises and never aborts part-way: every descriptor
\* of the sequence is processed and has a Result in the returned mapping.
C2_ExecuteManyNeverAborts ==
    op = "execute_many" =>
        /\ pc # "raised"
        /\ pc = "returned" =>
              \A t \in Tasks :
                  /\ call[t].phase = "done"
                  /\ json_key(req_arg_list[t].url) \in DOMAIN retval.val
                  /\ IsResult(retval.val[json_key(req_arg_list[t].url)])

\* C3: for a None descriptor or an empty or absent url, execute makes no
\* attempt on the network and returns the status "000" with the validation
\* error's message as text.
C3_ValidationFailureResult ==
    (op = "execute" /\ pc = "returned" /\ FailsValidation(req_arg_list[1])) =>
        /\ call[1].attempts = 0
        /\ retval =
             Result(JsonString("000"),
                    JsonString(IF req_arg_list[1] = PyNone
                               THEN "RequestArgs cannot be empty"
                               ELSE "URL cannot be empty."))

\* The part of C3 the code does satisfy: no attempt, status "000", and a text
\* that is the one-element array holding the message.
ValidationFailureAsCoded ==
    (op = "execute" /\ pc = "returned" /\ FailsValidation(req_arg_list[1])) =>
        /\ call[1].attempts = 0
        /\ retval.status_code = JsonString("000")
        /\ retval.text.type = "array"
        /\ Len(retval.text.val) = 1

\* C4: for a valid descriptor whose round trip ends with the response (S, B)
\* - the client returned it, or S is outside the retry set - the Result is
\* status S and text B, also when S is an error status such as 404.
C4_FinalStatusPassedThrough ==
    \A t \in Tasks :
        LET c == call[t]
        IN  (/\ c.phase = "done"
             /\ Valid(req_arg_list[t])
             /\ c.answers # <<>>
             /\ Last(c.answers).kind = "response"
             /\ \/ c.outcome.kind = "response"
                \/ Last(c.answers).status_code \notin RetrySet)
            => /\ c.result = Result(JsonNumber(Last(c.answers).status_code),
                                    JsonString(Last(c.answers).text))
               /\ op = "execute" => (pc = "returned" /\ retval = c.result)

C4_Witness ==
    /\ op = "execute"
    /\ pc = "returned"
    /\ Valid(req_arg_list[1])
    /\ req_arg_list[1].method = "GET"
    /\ call[1].answers = <<A404>>
    /\ retval = Result(JsonNumber(404), JsonString("Not Found"))

\* C5: for a valid descriptor, an exception of the client call (unreachable
\* endpoint, timeout, retries exhausted, refused url) becomes the Result with
\* status 500 and text "Error: " followed by the exception's description.
C5_ExceptionBecomes500 ==
    \A t \in Tasks :
        LET c == call[t]
        IN  (/\ c.phase = "done"
             /\ Valid(req_arg_list[t])
             /\ c.outcome.kind = "exception")
            => /\ c.result = Result(JsonNumber(500), JsonString("Error: " \o c.outcome.text))
               /\ op = "execute" => (pc = "returned" /\ retval = c.result)

C5_Witness ==
    /\ op = "execute"
    /\ pc = "returned"
    /\ Valid(req_arg_list[1])
    /\ req_arg_list[1].method = "POST"
    /\ call[1].attempts = maxRetries + 1
    /\ Last(call[1].answers) = ConnectError
    /\ retval = Result(JsonNumber(500), JsonString("Error: ConnectionError"))

\* C6: retry transparency.  For a valid descriptor of any method, when the
\* endpoint answers 503 fewer than maxRetries times and then 200, the call
\* does not end on one of the 503 answers and the Result has status 200.
\* Stated for the calls carried by the Executor's own adapter, the only ones
\* the configured Retry object can act on.
C6_RetryTransparency ==
    \A t \in Tasks :
        LET c == call[t]
            h == c.answers
        IN  (/\ c.phase = "done"
             /\ Valid(req_arg_list[t])
             /\ c.adapter = self.http_adapter.id) =>
                \A k \in 0..(maxRetries - 1) :
                    (\A i \in 1..k : i <= Len(h) /\ h[i] = A503) =>
                        /\ ~(k >= 1 /\ Len(h) = k)
                        /\ (Len(h) = k + 1 /\ h[k + 1] = A200)
                              => c.result.status_code = JsonNumber(200)

\* C7: for a batch whose descriptors have pairwise distinct urls, the keys of
\* the returned mapping are exactly those urls and each url maps to the Result
\* execute produces for that descriptor on its own.
C7_DistinctUrlsKeyedResults ==
    (/\ op = "execute_many"
     /\ pc = "returned"
     /\ \A i, j \in Tasks : i # j => req_arg_list[i].url # req_arg_list[j].url)
    => /\ DOMAIN retval.val = {json_key(req_arg_list[t].url) : t \in Tasks}
       /\ Cardinality(DOMAIN retval.val) = Len(req_arg_list)
       /\ \A t \in Tasks :
             retval.val[json_key(req_arg_list[t].url)] =
                 execute_alone(req_arg_list[t], call[t].answers)

C7_Witness ==
    /\ op = "execute_many"
    /\ pc = "returned"
    /\ Len(req_arg_list) = 2
    /\ req_arg_list[1].url = Url("http://", "a")
    /\ req_arg_list[2].url = Url("http://", "b")
    /\ retval.val[Url("http://", "a")] = Result(JsonNumber(200), JsonString("OK"))
    /\ retval.val[Url("http://", "b")] = Result(JsonNumber(500), JsonString("Error: ConnectionError"))

\* C8: when two descriptors of a batch share a url, the returned mapping has
\* exactly one entry for it, holding the Result of the one whose call completed
\* later; both calls are executed.
C8_SharedUrlLastWriterWins ==
    (op = "execute_many" /\ pc = "returned") =>
        \A i, j \in Tasks :
            (i # j /\ req_arg_list[i].url = req_arg_list[j].url) =>
                LET u == req_arg_list[i].url
                    same == {t \in Tasks : req_arg_list[t].url = u}
                    last == CHOOSE t \in same :
                                \A s \in same : CompletedAt(s) <= CompletedAt(t)
                IN  /\ \A t \in same : call[t].phase = "done" /\ t \in Range(completed)
                    /\ Cardinality({k \in DOMAIN retval.val : k = json_key(u)}) = 1
                    /\ Cardinality(DOMAIN retval.val) < Len(req_arg_list)
                    /\ retval.val[json_key(u)] = call[last].result

C8_Witness ==
    /\ op = "execute_many"
    /\ pc = "returned"
    /\ Len(req_arg_list) = 2
    /\ req_arg_list[1].url = Url("http://", "a")
    /\ req_arg_list[2].url = Url("http://", "a")
    /\ call[1].result = Result(JsonNumber(200), JsonString("OK"))
    /\ call[2].result = Result(JsonNumber(404), JsonString("Not Found"))
    /\ retval.val[Url("http://", "a")] = call[2].result

\* C9: execute_many runs the calls of a batch in parallel: when it has
\* returned for a batch of two or more valid descriptors, two of its calls
\* were at some moment submitted and unfinished together.
C9_CallsRunInParallel ==
    (/\ op = "execute_many"
     /\ pc = "returned"
     /\ Len(req_arg_list) >= 2
     /\ \A t \in Tasks : Valid(req_arg_list[t]))
    => peak >= 2

\* What the code does instead: at no moment of any execution are two calls of
\* a batch submitted and unfinished together.
AtMostOneInFlight == Cardinality(InFlight(future)) <= 1 /\ peak <= 1

\* C10: execute_many does not return while a unit it submitted is pending or
\* running: once it has returned, every submitted call has completed and its
\* Result has been stored in the mapping.
C10_ReturnsAfterAllCompleted ==
    (op = "execute_many" /\ pc = "returned") =>
        /\ InFlight(future) = {}
        /\ \A t \in Tasks :
              /\ future[t] = "finished"
              /\ call[t].phase = "done"
              /\ call[t].result # NoResult
              /\ json_key(req_arg_list[t].url) \in DOMAIN retval.val
              /\ \E s \in Tasks :
                    /\ req_arg_list[s].url = req_arg_list[t].url
                    /\ retval.val[json_key(req_arg_list[t].url)] = call[s].result

C10_Witness ==
    /\ op = "execute_many"
    /\ pc = "returned"
    /\ Len(req_arg_list) = 2
    /\ \A t \in Tasks : future[t] = "finished" /\ call[t].attempts >= 2

---------------------------------------------------------------------------
\* Every Result of the batch is collected: execute_many has returned and each
\* descriptor's url is a key of the mapping.
AllCollected ==
    /\ op = "execute_many"
    /\ pc = "returned"
    /\ \A t \in Tasks :
          /\ call[t].phase = "done"
          /\ IF req_arg_list[t] = PyNone
             THEN FALSE
             ELSE json_key(req_arg_list[t].url) \in DOMAIN retval.val

\* C11: when every call completes and the pool runs every submitted task,
\* execute_many eventually returns with the Result of every descriptor of the
\* batch collected under its url.
C11_EventuallyReturns == (op = "execute_many") => <>AllCollected

\* What the code does guarantee: a batch without a None descriptor is
\* eventually returned with every Result collected.
ReturnsWhenNoneIsAbsent ==
    (op = "execute_many" /\ \A t \in Tasks : req_arg_list[t] # PyNone) => <>AllCollected

NetworkFailure(a) == a.kind \in {"connect_error", "read_error"}

\* C12 as claimed: a network-level failure is not retried: the call makes
\* exactly one attempt and the Result has status 500.
C12_NetworkFailureSingleAttempt ==
    \A t \in Tasks :
        LET c == call[t]
        IN  (/\ c.phase = "done"
             /\ Valid(req_arg_list[t])
             /\ \E i \in 1..Len(c.answers) : NetworkFailure(c.answers[i]))
            => /\ c.attempts = 1
               /\ c.result.status_code = JsonNumber(500)

\* C12 as amended: a call that ends on a network-level failure yields status
\* 500 and an "Error: " text.  Through the Executor's adapter it does so only
\* once the retry budget is spent (maxRetries + 1 attempts) for a connection
\* failure with any method and for a read failure with GET, PUT or DELETE; a
\* read failure with POST or PATCH is not retried; through a session's default
\* adapter there is exactly one attempt.
C12_NetworkFailureRetried ==
    \A t \in Tasks :
        LET c == call[t]
            own == c.adapter = self.http_adapter.id
            retried == \/ Last(c.answers) = ConnectError
                       \/ c.verb \in {"GET", "PUT", "DELETE"}
        IN  (/\ c.phase = "done"
             /\ Valid(req_arg_list[t])
             /\ c.answers # <<>>
             /\ NetworkFailure(Last(c.answers)))
            => /\ c.outcome.kind = "exception"
               /\ c.result = Result(JsonNumber(500), JsonString("Error: " \o c.outcome.text))
               /\ (own /\ retried) => c.attempts = maxRetries + 1
               /\ (own /\ ~retried) =>
                     \A i \in 1..(Len(c.answers) - 1) : c.answers[i] = ConnectError
               /\ ~own => c.attempts = 1

C12_Witness ==
    /\ op = "execute"
    /\ pc = "returned"
    /\ Valid(req_arg_list[1])
    /\ req_arg_list[1].method = "GET"
    /\ call[1].adapter = self.http_adapter.id
    /\ call[1].attempts = maxRetries + 1
    /\ \A i \in 1..Len(call[1].answers) : call[1].answers[i] = ConnectError
    /\ retval.status_code = JsonNumber(500)

C14_OwnAdapterCarriesEveryRequest ==
    \A t \in Tasks :
        (Valid(req_arg_list[t]) /\ call[t].adapter # "")
            => call[t].adapter = self.http_adapter.id

C16_OneCallWithVerbAndArguments ==
    \A t \in Tasks :
        LET c == call[t]
            d == req_arg_list[t]
        IN  c.phase # "new" =>
                IF Valid(d)
                THEN /\ c.client_calls = 1
                     /\ c.verb = d.method
                     /\ c.kwargs =
                          IF d.method \in {"GET", "DELETE"}
                          THEN {"params", "headers", "timeout"}
                          ELSE {"params", "data", "json", "headers", "timeout"}
                ELSE c.client_calls = 0

C16_Witness ==
    /\ op = "execute"
    /\ pc = "returned"
    /\ Valid(req_arg_list[1])
    /\ req_arg_list[1].method = "DELETE"
    /\ call[1].client_calls = 1
    /\ call[1].verb = "DELETE"
    /\ call[1].kwargs = {"params", "headers", "timeout"}
    /\ retval.status_code = JsonNumber(200)

\* C17: the sentinel status separates failures before any attempt on the
\* network from failures in flight: execute returns "000" exactly when it
\* failed before any attempt, and a 500 made from a caught exception only when
\* an attempt was made.
C17_SentinelIffPreFlight ==
    (op = "execute" /\ pc = "returned" /\ IsResult(retval)) =>
        LET c == call[1]
        IN  /\ (retval.status_code = JsonString("000"))
                  <=> (c.outcome.kind = "exception" /\ c.attempts = 0)
            /\ (retval.status_code = JsonNumber(500) /\ c.outcome.kind = "exception")
                  => c.attempts >= 1

\* C18: HTTP and HTTPS traffic use independent adapter instances: the adapter
\* mounted for a descriptor with protocol HTTP is never the instance mounted
\* for a descriptor with protocol HTTPS.
C18_IndependentAdaptersPerProtocol ==
    \A s, t \in Tasks :
        (/\ call[s].mounted # ""
         /\ call[t].mounted # ""
         /\ req_arg_list[s].protocol = "http://"
         /\ req_arg_list[t].protocol = "https://")
        => call[s].mounted # call[t].mounted

\* C18 as amended: the Executor has a single adapter instance, and it is the
\* one mounted for every descriptor that passes validation, whether its
\* protocol is HTTP or HTTPS.
C18_OneAdapterForBothProtocols ==
    \A t \in Tasks :
        (call[t].phase # "new" /\ ~FailsValidation(req_arg_list[t]))
            => call[t].mounted = self.http_adapter.id

C18_Witness ==
    /\ op = "execute_many"
    /\ Len(req_arg_list) = 2
    /\ call[1].mounted = self.http_adapter.id
    /\ call[2].mounted = self.http_adapter.id
    /\ req_arg_list[1].protocol = "http://"
    /\ req_arg_list[2].protocol = "https://"

\* C19: execute and execute_many leave the caller's descriptors and the
\* Executor's fields unchanged: no step changes a field of a descriptor, the
\* adapter or the worker pool.
C19_ArgumentsAndExecutorUnchanged ==
    [][self' = self /\ req_arg_list' = req_arg_list]_vars

C19_Witness ==
    /\ op = "execute_many"
    /\ pc = "returned"
    /\ Len(req_arg_list) = 2
    /\ self = HTTPUtils(MaxRetries)
    /\ req_arg_list[1] = RequestArgs("GET", "http://", Url("http://", "a"))
    /\ req_arg_list[2] = RequestArgs("GET", "https://", EmptyStr)
    /\ call[1].result.status_code = JsonNumber(500)
    /\ call[2].result.status_code = JsonString("000")

\* C20: the outcome of execute_many does not depend on thread scheduling: the
\* returned mapping is determined by the list of descriptors and the answers
\* each call got, a url shared by several descriptors being mapped to the
\* Result of the last of them in list order.
C20_MappingIndependentOfScheduling ==
    (op = "execute_many" /\ pc = "returned") =>
        /\ DOMAIN retval.val = {json_key(req_arg_list[t].url) : t \in Tasks}
        /\ \A t \in Tasks :
              LET u == req_arg_list[t].url
                  last == CHOOSE s \in Tasks :
                              /\ req_arg_list[s].url = u
                              /\ \A r \in Tasks : req_arg_list[r].url = u => r <= s
              IN  retval.val[json_key(u)] =
                      execute_alone(req_arg_list[last], call[last].answers)

C20_Witness ==
    /\ op = "execute_many"
    /\ pc = "returned"
    /\ Len(req_arg_list) = 2
    /\ req_arg_list[1].url = Url("http://", "b")
    /\ req_arg_list[2].url = Url("http://", "b")
    /\ call[1].result = Result(JsonNumber(404), JsonString("Not Found"))
    /\ call[2].result = Result(JsonNumber(500), JsonString("Error: ConnectionError"))
    /\ retval.val[Url("http://", "b")] = call[2].result

=============================================================================
